---- MODULE Spec2Model ----
(***************************************************************************)
(* Model of the alpha-profile module for DustPy:                           *)
(*   functions_alphaProfiles.py  Gaussian, get_BumpProfile, Alpha_Bump,    *)
(*                               Alpha_DeadZone                            *)
(*   setup_alphaProfiles.py      setup_profile_bumps,                      *)
(*                               setup_profile_deadzone, get_DiskMass,     *)
(*                               rescale_Sigma_with_Alpha, get_Alpha,      *)
(*                               assign_Delta_updaters                     *)
(*   run_alphaProfiles_*.py      sim.initialize(); setup; sim.run()        *)
(*                                                                         *)
(* Numbers.  A float is modelled as a pair <<n, d>> of integers, d >= 0,   *)
(* in lowest terms.  d > 0 is the rational n/d; d = 0 carries the IEEE     *)
(* special values numpy produces instead of raising: <<1,0>> is +inf,      *)
(* <<-1,0>> is -inf and <<0,0>> is NaN.  Arithmetic is exact: rounding of  *)
(* the floating-point operations is not modelled.  np.exp is evaluated on  *)
(* a dyadic grid (see Exp) and 2*sqrt(2*ln 2) is the rational FWHM.        *)
(***************************************************************************)
EXTENDS Integers, Sequences, FiniteSets, TLC

\* ------------------------------------------------------------------ bounds
Nr == 3
NBins == 2
MaxBumps == 2
MaxSweeps == 2
ExpRange == 3

\* -------------------------------------------------------------- arithmetic
Abs(n) == IF n < 0 THEN -n ELSE n

Sign(n) == IF n < 0 THEN -1 ELSE IF n > 0 THEN 1 ELSE 0

RECURSIVE GCD(_, _)
GCD(a, b) == IF b = 0 THEN a ELSE GCD(b, a % b)

Norm(n, d) ==
    IF d = 0 THEN <<Sign(n), 0>>
    ELSE IF n = 0 THEN <<0, 1>>
    ELSE LET g == GCD(Abs(n), Abs(d))
         IN  <<Sign(n) * Sign(d) * (Abs(n) \div g), Abs(d) \div g>>

Rat(n) == <<n, 1>>

NaN == <<0, 0>>

IsNaN(a) == a[1] = 0 /\ a[2] = 0

IsInf(a) == a[1] # 0 /\ a[2] = 0

IsFinite(a) == a[2] > 0

RMul(a, b) ==
    IF a[2] = 0 \/ b[2] = 0 THEN <<Sign(a[1]) * Sign(b[1]), 0>>
    ELSE IF a[1] = 0 \/ b[1] = 0 THEN <<0, 1>>
    ELSE LET g1 == GCD(Abs(a[1]), b[2])
             g2 == GCD(Abs(b[1]), a[2])
         IN  <<(a[1] \div g1) * (b[1] \div g2), (a[2] \div g2) * (b[2] \div g1)>>

RInv(a) ==
    IF a[2] = 0 THEN (IF a[1] = 0 THEN NaN ELSE <<0, 1>>)
    ELSE IF a[1] = 0 THEN <<1, 0>>
    ELSE <<Sign(a[1]) * a[2], Abs(a[1])>>

RDiv(a, b) == RMul(a, RInv(b))

RAdd(a, b) ==
    IF IsNaN(a) \/ IsNaN(b) THEN NaN
    ELSE IF a[2] = 0 /\ b[2] = 0 THEN (IF a[1] = b[1] THEN a ELSE NaN)
    ELSE IF a[2] = 0 THEN a
    ELSE IF b[2] = 0 THEN b
    ELSE LET g == GCD(a[2], b[2])
         IN  Norm(a[1] * (b[2] \div g) + b[1] * (a[2] \div g), (a[2] \div g) * b[2])

RNeg(a) == <<-a[1], a[2]>>

RSub(a, b) == RAdd(a, RNeg(b))

\* a < b as numpy compares: every comparison with NaN is False
RLt(a, b) ==
    IF IsNaN(a) \/ IsNaN(b) THEN FALSE
    ELSE IF a[2] = 0 THEN a[1] < 0 /\ b # a
    ELSE IF b[2] = 0 THEN b[1] > 0
    ELSE a[1] * b[2] < b[1] * a[2]

RGe(a, b) == ~IsNaN(a) /\ ~IsNaN(b) /\ ~RLt(a, b)

RECURSIVE Pow2(_)
Pow2(k) == IF k = 0 THEN 1 ELSE 2 * Pow2(k - 1)

\* np.exp.  exp(0) = 1, exp(-inf) = 0, exp(inf) = inf, exp(NaN) = NaN; a
\* finite t is rounded away from zero to an integer k and exp(t) is 2^k,
\* underflowing to 0 below 2^-ExpRange and overflowing to inf above 2^ExpRange.
Exp(t) ==
    IF IsNaN(t) THEN NaN
    ELSE IF t[2] = 0 THEN (IF t[1] > 0 THEN <<1, 0>> ELSE <<0, 1>>)
    ELSE IF t[1] = 0 THEN <<1, 1>>
    ELSE LET k == (Abs(t[1]) + t[2] - 1) \div t[2]
         IN  IF t[1] < 0
             THEN (IF k > ExpRange THEN <<0, 1>> ELSE <<1, Pow2(k)>>)
             ELSE (IF k > ExpRange THEN <<1, 0>> ELSE <<Pow2(k), 1>>)

\* -------------------------------------------------------------------- grid
Cells == 1..Nr

\* sim.grid.r: strictly increasing cell centres
grid_r == [i \in Cells |-> Rat(i)]

\* sim.grid.A: cell areas, growing with radius
grid_A == [i \in Cells |-> Rat(2 * i)]

\* 2. * np.sqrt(2 * np.log(2)) = 2.3548...
FWHM == <<471, 200>>

\* ------------------------------------------------- functions_alphaProfiles
\* A GaussianBumps field as given by the caller: a python number
\* (scalar = TRUE, v of length 1) or a sequence of numbers.
Scalar(x) == [scalar |-> TRUE, v |-> <<x>>]

Seqn(s) == [scalar |-> FALSE, v |-> s]

\* z**2
Square(z) == RMul(z, z)

\* A * np.exp(-0.5 * ((r - r0)/sigma)**2), element-wise over the grid
Gaussian(r, r0, A, sigma) ==
    [i \in DOMAIN r |->
        RMul(A, Exp(RMul(<<-1, 2>>, Square(RDiv(RSub(r[i], r0), sigma)))))]

\* interp1d(sim.grid.r, sim.gas.Hp) accepts x only inside the sampled range
InGrid(x) == RGe(x, grid_r[1]) /\ RGe(grid_r[Nr], x)

\* Linear interpolation of Hp at x between the grid points i and i + 1
Interpolate(Hp, x, i) ==
    RAdd(Hp[i], RMul(RDiv(RSub(Hp[i + 1], Hp[i]), RSub(grid_r[i + 1], grid_r[i])),
                     RSub(x, grid_r[i])))

\* interp1d(sim.grid.r, sim.gas.Hp)(x): piecewise-linear interpolation
Hp_interpolator(sim, x) ==
    Interpolate(sim.Hp, x,
                CHOOSE j \in 1..(Nr - 1) : RGe(x, grid_r[j]) /\ RGe(grid_r[j + 1], x))

\* element i of an operand numpy broadcasts against a longer one
Pick(s, i) == IF Len(s) = 1 THEN s[1] ELSE s[i]

Max(a, b) == IF a > b THEN a ELSE b

\* sigma_bumps = Width * Hp_interpolator(r_bumps) / (2. * np.sqrt(2 * np.log(2)))
sigma_bumps(sim) ==
    [i \in 1..Max(Len(sim.GaussianBumps.Width.v), Len(sim.GaussianBumps.Location.v)) |->
        RDiv(RMul(Pick(sim.GaussianBumps.Width.v, i),
                  Hp_interpolator(sim, Pick(sim.GaussianBumps.Location.v, i))),
             FWHM)]

\* bump_profile += g
AddTo(acc, g) == [i \in Cells |-> RAdd(acc[i], g[i])]

\* np.ones_like(sim.grid.r)
Ones == [i \in Cells |-> Rat(1)]

\* bump_profile after the first k passes of the loop over range(len(r_bumps))
RECURSIVE SumBumps(_, _, _, _)
SumBumps(r_bumps, A_bumps, sigma, k) ==
    IF k = 0 THEN Ones
    ELSE AddTo(SumBumps(r_bumps, A_bumps, sigma, k - 1),
               Gaussian(grid_r, r_bumps[k], A_bumps[k], sigma[k]))

\* The scalar branch with the standard deviation taken to be the Width itself
bump_profile_WidthAsSigma(sim) ==
    IF sim.GaussianBumps.Location.scalar
    THEN AddTo(Ones, Gaussian(grid_r, sim.GaussianBumps.Location.v[1],
                              sim.GaussianBumps.Amplitude.v[1], sim.GaussianBumps.Width.v[1]))
    ELSE SumBumps(sim.GaussianBumps.Location.v, sim.GaussianBumps.Amplitude.v,
                  sigma_bumps(sim), Len(sim.GaussianBumps.Location.v))

\* bump_profile: ones plus the one gaussian of scalar arguments, or plus the
\* gaussians of the loop over the locations
bump_profile(sim) ==
    IF sim.GaussianBumps.Location.scalar
    THEN AddTo(Ones, Gaussian(grid_r, sim.GaussianBumps.Location.v[1],
                              sim.GaussianBumps.Amplitude.v[1], sigma_bumps(sim)[1]))
    ELSE SumBumps(sim.GaussianBumps.Location.v, sim.GaussianBumps.Amplitude.v,
                  sigma_bumps(sim), Len(sim.GaussianBumps.Location.v))

\* 1./bump_profile
Reciprocal(p) == [i \in Cells |-> RInv(p[i])]

Raised(e) == [err |-> e, val |-> << >>]

Returned(v) == [err |-> "none", val |-> v]

\* Width and Hp_interpolator(r_bumps) have shapes numpy cannot broadcast
ShapeMismatch(lw, lr) == lw # lr /\ lw # 1 /\ lr # 1

\* get_BumpProfile(sim): 1 + sum of the gaussians (GAP) or its reciprocal
\* (BUMP).  err is the exception that leaves the function: ValueError from
\* interp1d (a location outside the grid) or from broadcasting Width against
\* the locations, IndexError from A_bumps[i], SystemExit from exit(0).
get_BumpProfile(sim) ==
    IF \E i \in DOMAIN sim.GaussianBumps.Location.v : ~InGrid(sim.GaussianBumps.Location.v[i])
    THEN Raised("ValueError")
    ELSE IF ShapeMismatch(Len(sim.GaussianBumps.Width.v), Len(sim.GaussianBumps.Location.v))
    THEN Raised("ValueError")
    ELSE IF /\ ~sim.GaussianBumps.Location.scalar
            /\ Len(sim.GaussianBumps.Amplitude.v) < Len(sim.GaussianBumps.Location.v)
    THEN Raised("IndexError")
    ELSE IF sim.GaussianBumps.Type = "GAP" THEN Returned(bump_profile(sim))
    ELSE IF sim.GaussianBumps.Type = "BUMP" THEN Returned(Reciprocal(bump_profile(sim)))
    ELSE Raised("SystemExit")

\* alpha = alpha_0 * bump_profile
ScaledBy(alpha_0, profile) ==
    IF profile.err # "none" THEN profile
    ELSE Returned([i \in Cells |-> RMul(alpha_0, profile.val[i])])

\* Alpha_Bump(sim)
Alpha_Bump(sim) == ScaledBy(sim.iniAlpha, get_BumpProfile(sim))

\* The second mask written x > 0: the cell at x = 0 keeps np.ones_like(r)
alpha_shape_StrictMask(x, w_out) ==
    IF RLt(x, Rat(0)) THEN RMul(<<1, 2>>, Exp(RDiv(x, w_out)))
    ELSE IF RLt(Rat(0), x) THEN RSub(Rat(1), RMul(<<1, 2>>, Exp(RDiv(RNeg(x), w_out))))
    ELSE Rat(1)

\* alpha_shape of a cell at x = r - r_out: it starts as one; the mask x < 0
\* and the mask x >= 0 overwrite it (a NaN x is in neither mask)
alpha_shape(x, w_out) ==
    IF RLt(x, Rat(0)) THEN RMul(<<1, 2>>, Exp(RDiv(x, w_out)))
    ELSE IF RGe(x, Rat(0)) THEN RSub(Rat(1), RMul(<<1, 2>>, Exp(RDiv(RNeg(x), w_out))))
    ELSE Rat(1)

\* Alpha_DeadZone(sim): alpha_dead + (alpha_active - alpha_dead) * alpha_shape
Alpha_DeadZone(sim) ==
    Returned([i \in Cells |->
        RAdd(sim.DeadZone.alpha_dead,
             RMul(RSub(sim.DeadZone.alpha_active, sim.DeadZone.alpha_dead),
                  alpha_shape(RSub(grid_r[i], sim.DeadZone.outer_radii),
                              sim.DeadZone.transition_width)))])

\* ---------------------------------------------------- setup_alphaProfiles
\* np.sum(a * b) over the first k cells
RECURSIVE SumProd(_, _, _)
SumProd(a, b, k) ==
    IF k = 0 THEN Rat(0) ELSE RAdd(SumProd(a, b, k - 1), RMul(a[k], b[k]))

\* get_DiskMass(sim): np.sum(sim.grid.A * sim.gas.Sigma)
get_DiskMass(sim) == SumProd(grid_A, sim.gasSigma, Nr)

\* sim.gas.Sigma *= alpha_0/sim.gas.alpha; sim.dust.Sigma likewise per bin
Scaled(sim, alpha_0) ==
    [sim EXCEPT
        !.gasSigma = [i \in Cells |-> RMul(sim.gasSigma[i], RDiv(alpha_0, sim.alpha[i]))],
        !.dustSigma = [i \in Cells |-> [k \in 1..NBins |->
                          RMul(sim.dustSigma[i][k], RDiv(alpha_0, sim.alpha[i]))]]]

\* The mass correction multiplying by mass_ratio where the code divides
MassCorrected_Multiplying(sim, mass_ratio) ==
    [sim EXCEPT
        !.gasSigma = [i \in Cells |-> RMul(sim.gasSigma[i], mass_ratio)],
        !.dustSigma = [i \in Cells |-> [k \in 1..NBins |-> RMul(sim.dustSigma[i][k], mass_ratio)]]]

\* sim.gas.Sigma /= mass_ratio; sim.dust.Sigma /= mass_ratio
MassCorrected(sim, mass_ratio) ==
    [sim EXCEPT
        !.gasSigma = [i \in Cells |-> RDiv(sim.gasSigma[i], mass_ratio)],
        !.dustSigma = [i \in Cells |-> [k \in 1..NBins |-> RDiv(sim.dustSigma[i][k], mass_ratio)]]]

\* The second half of rescale_Sigma_with_Alpha, from mass_ratio on
WithMassRatio(scaled, mass_ratio, correct_mass) ==
    [(IF correct_mass THEN MassCorrected(scaled, mass_ratio) ELSE scaled) EXCEPT
        !.mass_ratio = mass_ratio, !.log = Append(scaled.log, "rescale")]

\* rescale_Sigma_with_Alpha(sim, alpha_0, correct_mass): gas and dust surface
\* densities times alpha_0/alpha, then (correct_mass) divided by the ratio of
\* the scaled to the original gas mass.  numpy divides by zero without
\* raising, so the function always returns.
rescale_Sigma_with_Alpha(sim, alpha_0, correct_mass) ==
    WithMassRatio(Scaled(sim, alpha_0),
                  RDiv(get_DiskMass(Scaled(sim, alpha_0)), get_DiskMass(sim)),
                  correct_mass)

\* get_Alpha(sim)
get_Alpha(sim) == sim.alpha

\* assign_Delta_updaters(sim)
assign_Delta_updaters(sim) ==
    [sim EXCEPT !.delta_rad.updater = "get_Alpha",
                !.delta_turb.updater = "get_Alpha",
                !.delta_vert.updater = "get_Alpha",
                !.log = Append(sim.log, "delta")]

\* The function assigned to sim.gas.alpha.updater, called on sim
CallAlphaUpdater(sim) ==
    IF sim.alphaUpdater = "Alpha_Bump" THEN Alpha_Bump(sim)
    ELSE IF sim.alphaUpdater = "Alpha_DeadZone" THEN Alpha_DeadZone(sim)
    ELSE Returned(sim.alpha)

\* The alpha field takes the value its updater returned; an exception of the
\* updater leaves the field as it was
AlphaAssigned(sim, res) ==
    IF res.err # "none" THEN [sim |-> sim, err |-> res.err]
    ELSE [sim |-> [sim EXCEPT !.alpha = res.val,
                              !.log = IF sim.alphaUpdater # "none"
                                      THEN Append(sim.log, "alpha") ELSE sim.log],
          err |-> "none"]

\* The result of an alpha update with the density rescale applied on top
ThenRescaled(res) ==
    IF res.err # "none" THEN res
    ELSE [sim |-> rescale_Sigma_with_Alpha(res.sim, res.sim.iniAlpha, FALSE), err |-> "none"]

\* The alpha update applying the density rescale as well
AlphaUpdate_Rescaling(sim) == ThenRescaled(AlphaAssigned(sim, CallAlphaUpdater(sim)))

\* sim.gas.alpha.update()
AlphaUpdate(sim) == AlphaAssigned(sim, CallAlphaUpdater(sim))

\* sim.dust.delta.{rad,turb,vert}.update(): get_Alpha when assigned
DeltaUpdate(d, sim) ==
    IF d.updater = "get_Alpha" THEN [d EXCEPT !.value = get_Alpha(sim)] ELSE d

\* The steps of one sim.update(): sim.gas.updater in order, then the dust
\* turbulence fields
UpdateOrder(sim) == sim.gasUpdater \o <<"dust.delta">>

\* Bookkeeping of the sweep: step name is being executed
Stepped(sim, name) == [sim EXCEPT !.done = Append(sim.done, name)]

\* One step of sim.update().  Only alpha and the dust deltas have updaters
\* this module assigns; the fields of GaussianBumps and DeadZone have none, and
\* the other quantities are computed by DustPy.
UpdateField(sim, name) ==
    IF name = "alpha" THEN AlphaUpdate(Stepped(sim, name))
    ELSE IF name = "dust.delta" THEN
        [sim |-> [sim EXCEPT !.done = Append(sim.done, name),
                             !.delta_rad = DeltaUpdate(sim.delta_rad, sim),
                             !.delta_turb = DeltaUpdate(sim.delta_turb, sim),
                             !.delta_vert = DeltaUpdate(sim.delta_vert, sim)],
         err |-> "none"]
    ELSE [sim |-> Stepped(sim, name), err |-> "none"]

\* The next step after the steps that gave res, unless one of them raised
ThenField(res, name) == IF res.err # "none" THEN res ELSE UpdateField(res.sim, name)

\* sim.update() up to and including step k of the order
RECURSIVE UpdateUpTo(_, _)
UpdateUpTo(sim, k) ==
    IF k = 0 THEN [sim |-> [sim EXCEPT !.done = << >>], err |-> "none"]
    ELSE ThenField(UpdateUpTo(sim, k - 1), UpdateOrder(sim)[k])

\* sim.update()
sim_update(sim) ==
    UpdateUpTo([sim EXCEPT !.log = Append(sim.log, "update")], Len(UpdateOrder(sim)))

\* The gas update order of DustPy before either setup routine changes it
DefaultGasUpdater ==
    <<"gamma", "mu", "T", "cs", "Hp", "nu", "rho", "n", "mfp", "P", "eta", "S">>

\* The bump update order with alpha computed ahead of the scale height
BumpsGasUpdater_AlphaFirst ==
    <<"gamma", "mu", "T", "cs", "GaussianBumps", "alpha", "Hp", "nu", "rho", "n", "mfp", "P", "eta", "S">>

\* sim.gas.updater as setup_profile_bumps assigns it
BumpsGasUpdater ==
    <<"gamma", "mu", "T", "cs", "Hp", "GaussianBumps", "alpha", "nu", "rho", "n", "mfp", "P", "eta", "S">>

\* sim.gas.updater as setup_profile_deadzone assigns it
DeadZoneGasUpdater ==
    <<"gamma", "mu", "T", "cs", "Hp", "DeadZone", "alpha", "nu", "rho", "n", "mfp", "P", "eta", "S">>

\* Lines 40-56 of setup_profile_bumps: the GaussianBumps group, the gas update
\* order and the alpha updater
BumpsInstalled(sim, Location, Amplitude, Width, GasBumpType) ==
    [sim EXCEPT
        !.GaussianBumps = [present |-> TRUE, Location |-> Location, Amplitude |-> Amplitude,
                           Width |-> Width, Type |-> GasBumpType,
                           updater |-> <<"Location", "Amplitude", "Width">>],
        !.gasUpdater = BumpsGasUpdater,
        !.alphaUpdater = "Alpha_Bump",
        !.log = Append(sim.log, "install")]

\* Lines 104-121 of setup_profile_deadzone
DeadZoneInstalled(sim, alpha_active, alpha_dead, r_dz_outer, width_dz_outer) ==
    [sim EXCEPT
        !.DeadZone = [present |-> TRUE, alpha_active |-> alpha_active,
                      alpha_dead |-> alpha_dead, outer_radii |-> r_dz_outer,
                      transition_width |-> width_dz_outer,
                      updater |-> <<"alpha_active", "alpha_dead", "outer_radii", "transition_width">>],
        !.gasUpdater = DeadZoneGasUpdater,
        !.alphaUpdater = "Alpha_DeadZone",
        !.log = Append(sim.log, "install")]

\* if apply_to_sigma: rescale_Sigma_with_Alpha(sim, alpha_0, correct_mass)
RescaledIf(apply_to_sigma, sim, alpha_0, correct_mass) ==
    IF apply_to_sigma THEN rescale_Sigma_with_Alpha(sim, alpha_0, correct_mass) ELSE sim

\* Lines 62-69 of setup_profile_bumps, reached when alpha.update() returned.
\* The call assign_delta_updaters(sim) names a function the module does not
\* define (it defines assign_Delta_updaters), so copy_alpha_to_delta = True
\* raises NameError before sim.update().
BumpsAfterAlpha(updated, apply_to_sigma, correct_mass, copy_alpha_to_delta) ==
    IF updated.err # "none" THEN updated
    ELSE IF copy_alpha_to_delta
    THEN [sim |-> RescaledIf(apply_to_sigma, updated.sim, updated.sim.iniAlpha, correct_mass),
          err |-> "NameError"]
    ELSE sim_update(RescaledIf(apply_to_sigma, updated.sim, updated.sim.iniAlpha, correct_mass))

\* setup_profile_bumps rescaling before the new updater has computed alpha
setup_profile_bumps_RescaleFirst(sim, Location, Amplitude, Width, GasBumpType, apply_to_sigma, correct_mass, copy_alpha_to_delta) ==
    BumpsAfterAlpha(
        AlphaUpdate(RescaledIf(apply_to_sigma,
                               BumpsInstalled(sim, Location, Amplitude, Width, GasBumpType),
                               sim.iniAlpha, correct_mass)),
        FALSE, correct_mass, copy_alpha_to_delta)

\* setup_profile_bumps(sim, ...)
setup_profile_bumps(sim, Location, Amplitude, Width, GasBumpType, apply_to_sigma, correct_mass, copy_alpha_to_delta) ==
    BumpsAfterAlpha(AlphaUpdate(BumpsInstalled(sim, Location, Amplitude, Width, GasBumpType)),
                    apply_to_sigma, correct_mass, copy_alpha_to_delta)

\* if copy_alpha_to_delta: assign_Delta_updaters(sim)
DeltaAssignedIf(copy_alpha_to_delta, sim) ==
    IF copy_alpha_to_delta THEN assign_Delta_updaters(sim) ELSE sim

\* Lines 126-134 of setup_profile_deadzone, reached when alpha.update() returned
DeadZoneAfterAlpha(updated, alpha_active, apply_to_sigma, correct_mass, copy_alpha_to_delta) ==
    IF updated.err # "none" THEN updated
    ELSE sim_update(DeltaAssignedIf(copy_alpha_to_delta,
                        RescaledIf(apply_to_sigma, updated.sim, alpha_active, correct_mass)))

\* setup_profile_deadzone(sim, ...)
setup_profile_deadzone(sim, alpha_active, alpha_dead, r_dz_outer, width_dz_outer, apply_to_sigma, correct_mass, copy_alpha_to_delta) ==
    DeadZoneAfterAlpha(
        AlphaUpdate(DeadZoneInstalled(sim, alpha_active, alpha_dead, r_dz_outer, width_dz_outer)),
        alpha_active, apply_to_sigma, correct_mass, copy_alpha_to_delta)

\* ------------------------------------------------------------ state machine
VARIABLES sim, pre, call, pc, err, sweeps

vars == <<sim, pre, call, pc, err, sweeps>>

\* sim.ini.dust delta value the three dust turbulence fields start with
DeltaIni == <<1, 1000>>

\* The simulation object after sim.initialize(): flat alpha, no parameter
\* group, no updater on alpha or on the dust deltas, one completed update
InitialSim(Hp, Sigma, alpha_0) ==
    [Hp |-> Hp,
     iniAlpha |-> alpha_0,
     alpha |-> [i \in Cells |-> alpha_0],
     gasSigma |-> Sigma,
     dustSigma |-> [i \in Cells |-> [k \in 1..NBins |-> RDiv(Sigma[i], Rat(10 * k))]],
     gasUpdater |-> DefaultGasUpdater,
     alphaUpdater |-> "none",
     GaussianBumps |-> [present |-> FALSE, Location |-> Scalar(Rat(0)), Amplitude |-> Scalar(Rat(0)),
                        Width |-> Scalar(Rat(0)), Type |-> "", updater |-> << >>],
     DeadZone |-> [present |-> FALSE, alpha_active |-> Rat(0), alpha_dead |-> Rat(0),
                   outer_radii |-> Rat(0), transition_width |-> Rat(0), updater |-> << >>],
     delta_rad |-> [updater |-> "none", value |-> [i \in Cells |-> DeltaIni]],
     delta_turb |-> [updater |-> "none", value |-> [i \in Cells |-> DeltaIni]],
     delta_vert |-> [updater |-> "none", value |-> [i \in Cells |-> DeltaIni]],
     mass_ratio |-> Rat(1),
     log |-> << >>,
     done |-> DefaultGasUpdater \o <<"dust.delta">>]

\* Scale-height profiles, surface densities and base alphas of the runs
HpChoices == {[i \in Cells |-> Rat(1)], [i \in Cells |-> Rat(i)]}

SigmaChoices == {[i \in Cells |-> Rat(1)], [i \in Cells |-> Rat(Nr + 1 - i)]}

IniAlphaChoices == {<<1, 100>>, <<1, 10>>}

\* Arguments of setup_profile_bumps: all three scalars, or three sequences
\* of 1..MaxBumps entries each (lengths chosen independently)
LocationAt(i) == IF i = 1 THEN Rat(2) ELSE IF i = 2 THEN <<5, 2>> ELSE Rat(1)

ScalarLocations == {Rat(2), <<5, 2>>, Rat(Nr + 1)}

AmplitudeValues == {Rat(4), Rat(-1)}

WidthValues == {Rat(1), Rat(0)}

BumpTypes == {"GAP", "BUMP", "RING"}

BumpTriples ==
    {<<Scalar(l), Scalar(a), Scalar(w)>> :
        l \in ScalarLocations, a \in AmplitudeValues, w \in WidthValues}
    \cup
    {<<Seqn([i \in 1..n[1] |-> LocationAt(i)]), Seqn([i \in 1..n[2] |-> a]), Seqn([i \in 1..n[3] |-> w])>> :
        n \in (1..MaxBumps) \X (1..MaxBumps) \X (1..MaxBumps),
        a \in AmplitudeValues, w \in WidthValues}

\* Arguments of setup_profile_deadzone
AlphaActiveValues == {<<1, 10>>, <<1, 5>>}

AlphaDeadValues == {<<1, 20>>}

OuterRadii == {Rat(2), <<5, 2>>}

TransitionWidths == {Rat(1), <<1, 2>>, Rat(0), Rat(-1)}

NoCall == [fn |-> "none", apply_to_sigma |-> FALSE, correct_mass |-> FALSE,
           copy_alpha_to_delta |-> FALSE]

Init ==
    /\ \E Hp \in HpChoices, Sigma \in SigmaChoices, alpha_0 \in IniAlphaChoices :
          sim = InitialSim(Hp, Sigma, alpha_0)
    /\ pre = sim
    /\ call = NoCall
    /\ pc = "initialized"
    /\ err = "none"
    /\ sweeps = 0

\* What the script does with the result of a setup call: an exception is not
\* caught, so the script ends; otherwise it goes on to sim.run()
Finish(res, fn, apply_to_sigma, correct_mass, copy_alpha_to_delta) ==
    /\ sim' = res.sim
    /\ err' = res.err
    /\ pc' = IF res.err = "none" THEN "run" ELSE "terminated"
    /\ call' = [fn |-> fn, apply_to_sigma |-> apply_to_sigma, correct_mass |-> correct_mass,
                copy_alpha_to_delta |-> copy_alpha_to_delta]
    /\ UNCHANGED <<pre, sweeps>>

SetupProfileBumps ==
    /\ pc = "initialized"
    /\ \E t \in BumpTriples, GasBumpType \in BumpTypes,
          apply_to_sigma \in BOOLEAN, correct_mass \in BOOLEAN, copy_alpha_to_delta \in BOOLEAN :
          Finish(setup_profile_bumps(sim, t[1], t[2], t[3], GasBumpType,
                                     apply_to_sigma, correct_mass, copy_alpha_to_delta),
                 "bumps", apply_to_sigma, correct_mass, copy_alpha_to_delta)

SetupProfileDeadzone ==
    /\ pc = "initialized"
    /\ \E alpha_active \in AlphaActiveValues, alpha_dead \in AlphaDeadValues,
          r_dz_outer \in OuterRadii, width_dz_outer \in TransitionWidths,
          apply_to_sigma \in BOOLEAN, correct_mass \in BOOLEAN, copy_alpha_to_delta \in BOOLEAN :
          Finish(setup_profile_deadzone(sim, alpha_active, alpha_dead, r_dz_outer, width_dz_outer,
                                        apply_to_sigma, correct_mass, copy_alpha_to_delta),
                 "deadzone", apply_to_sigma, correct_mass, copy_alpha_to_delta)

\* sim.run() starts another sim.update()
BeginSweep ==
    /\ pc = "run"
    /\ Len(sim.done) = Len(UpdateOrder(sim))
    /\ sweeps < MaxSweeps
    /\ sim' = [sim EXCEPT !.done = << >>]
    /\ sweeps' = sweeps + 1
    /\ UNCHANGED <<pre, call, pc, err>>

\* The next step of the sim.update() in progress
UpdateStep ==
    /\ pc = "run"
    /\ Len(sim.done) < Len(UpdateOrder(sim))
    /\ LET res == UpdateField(sim, UpdateOrder(sim)[Len(sim.done) + 1])
       IN  /\ sim' = res.sim
           /\ err' = res.err
           /\ pc' = IF res.err = "none" THEN "run" ELSE "terminated"
    /\ UNCHANGED <<pre, call, sweeps>>

Next == SetupProfileBumps \/ SetupProfileDeadzone \/ BeginSweep \/ UpdateStep

Spec == Init /\ [][Next]_vars

\* ------------------------------------------------------------- properties
\* Number of entries of the call log equal to e
RECURSIVE Count(_, _)
Count(s, e) ==
    IF s = << >> THEN 0 ELSE (IF Head(s) = e THEN 1 ELSE 0) + Count(Tail(s), e)

RescaleCalls == Count(sim.log, "rescale")

BuilderCalls == Count(sim.log, "alpha")

\* Exceptions that leave the alpha builder
BuilderErrors == {"ValueError", "IndexError", "SystemExit"}

GroupName == IF call.fn = "bumps" THEN "GaussianBumps" ELSE "DeadZone"

\* Steps of the gas update that read alpha or a quantity computed from it
AlphaDependents == {"nu", "rho", "n", "mfp", "P", "eta", "S"}

Before(s, a, i) == \E j \in 1..(i - 1) : s[j] = a

Positive(a) == IsFinite(a) /\ a[1] > 0

\* alpha_0 handed to rescale_Sigma_with_Alpha by the setup routine called
RescaleBase == IF call.fn = "bumps" THEN sim.iniAlpha ELSE sim.DeadZone.alpha_active

\* Location, Amplitude and Width sequences of unequal length, a Width <= 0 or
\* a transition_width <= 0
InvalidConfiguration ==
    \/ /\ call.fn = "bumps"
       /\ LET G == sim.GaussianBumps
          IN  \/ /\ ~G.Location.scalar
                 /\ \/ Len(G.Amplitude.v) # Len(G.Location.v)
                    \/ Len(G.Width.v) # Len(G.Location.v)
              \/ \E i \in DOMAIN G.Width.v : ~Positive(G.Width.v[i])
    \/ /\ call.fn = "deadzone"
       /\ ~Positive(sim.DeadZone.transition_width)

\* C1: once a setup routine has returned, in every sweep of the update order
\* alpha is computed only after Hp and after the parameter group (itself
\* after Hp), and every step that depends on alpha only after alpha.
C1_AlphaBetweenHpAndDependents ==
    pc = "run" =>
        \A i \in DOMAIN sim.done :
            /\ sim.done[i] = "alpha" =>
                  /\ Before(sim.done, "Hp", i)
                  /\ Before(sim.done, GroupName, i)
            /\ sim.done[i] = GroupName => Before(sim.done, "Hp", i)
            /\ sim.done[i] \in AlphaDependents => Before(sim.done, "alpha", i)

C1_Witness ==
    /\ pc = "run"
    /\ sweeps >= 1
    /\ sim.done # << >>
    /\ sim.done[Len(sim.done)] = "nu"

\* C2 (as stated): after a setup call with valid parameters that returned,
\* the mass rescale has been called exactly once.
C2_RescaleExactlyOnce ==
    (pc = "run" /\ ~InvalidConfiguration) => RescaleCalls = 1

\* C2 (amended): the mass rescale is called exactly once when apply_to_sigma is
\* True and the alpha builder returned, and not at all otherwise; the call is
\* made by the setup routine ahead of its sim.update(), so no update sweep
\* ever adds one, however often the alpha builder is called.
C2_RescaleOnceIffApplied ==
    call.fn # "none" =>
        /\ RescaleCalls = IF call.apply_to_sigma /\ err \notin BuilderErrors THEN 1 ELSE 0
        /\ \A i \in DOMAIN sim.log : sim.log[i] = "rescale" => ~Before(sim.log, "update", i)

C2_Witness ==
    /\ pc = "run"
    /\ sweeps >= 1
    /\ RescaleCalls = 1
    /\ BuilderCalls >= 3

\* C3: after a rescale with correct_mass = True of positive surface densities
\* by a positive alpha profile, the gas mass sum(A * Sigma) equals the gas mass
\* before the rescale.
C3_MassConserved ==
    (/\ RescaleCalls >= 1
     /\ call.correct_mass
     /\ \A i \in Cells : Positive(sim.alpha[i]) /\ Positive(pre.gasSigma[i]))
    => get_DiskMass(sim) = get_DiskMass(pre)

C3_Witness ==
    /\ RescaleCalls = 1
    /\ call.correct_mass
    /\ \A i \in Cells : Positive(sim.alpha[i])
    /\ sim.mass_ratio # Rat(1)
    /\ sim.gasSigma # pre.gasSigma

\* C4: a bump Type other than GAP or BUMP ends the setup with an error raised
\* to the caller, not with the termination of the process, and alpha and the
\* surface densities are as before the call.
C4_InvalidTypeRaisesStructuredError ==
    (/\ call.fn = "bumps"
     /\ sim.GaussianBumps.Type \notin {"GAP", "BUMP"}
     /\ ~InvalidConfiguration) =>
        /\ err \notin {"none", "SystemExit"}
        /\ sim.alpha = pre.alpha
        /\ sim.gasSigma = pre.gasSigma
        /\ sim.dustSigma = pre.dustSigma

\* C5: a setup call with such a configuration fails with an error and no
\* alpha profile is produced from it.
C5_InvalidConfigurationFails ==
    InvalidConfiguration => (err # "none" /\ BuilderCalls = 0)

\* C6: when the computed alpha profile has a zero, the rescale does not divide
\* by it: no gas or dust surface density is NaN or infinite after the rescale.
C6_ZeroAlphaNotDivided ==
    (/\ RescaleCalls >= 1
     /\ \A i \in Cells : IsFinite(sim.alpha[i])
     /\ \E i \in Cells : sim.alpha[i] = Rat(0))
    => \A i \in Cells :
          /\ IsFinite(sim.gasSigma[i])
          /\ \A k \in 1..NBins : IsFinite(sim.dustSigma[i][k])

\* C7: a setup call with valid parameters whose alpha builder returned completes; with
\* copy_alpha_to_delta = True the three dust turbulence fields have the
\* updater get_Alpha and, at the end of every update, the value of the gas
\* alpha; with False their updaters are as before.
C7_DeltaFollowsAlpha ==
    (call.fn # "none" /\ err \notin BuilderErrors /\ ~InvalidConfiguration) =>
        /\ pc = "run"
        /\ \A d \in {sim.delta_rad, sim.delta_turb, sim.delta_vert} :
              IF call.copy_alpha_to_delta
              THEN /\ d.updater = "get_Alpha"
                   /\ Len(sim.done) = Len(UpdateOrder(sim)) => d.value = sim.alpha
              ELSE d.updater = "none"

\* The GaussianBumps group with its three fields given as length-1 sequences
AsSequences(s) ==
    [s EXCEPT !.GaussianBumps.Location = Seqn(@.v),
              !.GaussianBumps.Amplitude = Seqn(@.v),
              !.GaussianBumps.Width = Seqn(@.v)]

C9_DeadZoneHalfAtEdge ==
    call.fn = "deadzone" =>
        LET D == sim.DeadZone
        IN  \A i \in Cells :
               LET x == RSub(grid_r[i], D.outer_radii)
               IN  /\ RLt(x, Rat(0)) # RGe(x, Rat(0))
                   /\ (x = Rat(0) /\ Positive(D.transition_width)) =>
                         sim.alpha[i] = RAdd(D.alpha_dead,
                                             RMul(<<1, 2>>, RSub(D.alpha_active, D.alpha_dead)))

C9_Witness ==
    /\ call.fn = "deadzone"
    /\ pc = "run"
    /\ Positive(sim.DeadZone.transition_width)
    /\ \E i \in Cells : grid_r[i] = sim.DeadZone.outer_radii
    /\ \E i \in Cells : RLt(grid_r[i], sim.DeadZone.outer_radii)

\* The surface densities rescale_Sigma_with_Alpha leaves when it divides the
\* densities s by the profile alpha
RescaledBy(s, alpha, alpha_0, correct_mass) ==
    LET scaled == [i \in Cells |-> RMul(s[i], RDiv(alpha_0, alpha[i]))]
        ratio == RDiv(SumProd(grid_A, scaled, Nr), SumProd(grid_A, s, Nr))
    IN  IF correct_mass THEN [i \in Cells |-> RDiv(scaled[i], ratio)] ELSE scaled

====
